---- MODULE Spec2Model ----
(***************************************************************************)
(* A model of the floodsub router (src/floodsub.go): the PubSub struct,    *)
(* its processLoop and the handlers the loop calls.  The loop is the only  *)
(* writer of the router's maps.  A handler is one atomic step unless it    *)
(* reaches a channel send that cannot proceed (`peer <- out` in announce,  *)
(* `f.ch <- msg` in notifySubs): then the loop is parked on that send with *)
(* the rest of the handler kept in `work`, and LoopResume continues it.    *)
(***************************************************************************)
EXTENDS Integers, Sequences, FiniteSets, Bags, TLC

VARIABLES
    myTopics,      \* PubSub.myTopics : topic -> set of *Subscription (handle ids)
    topics,        \* PubSub.topics   : topic -> set of peer ids
    peers,         \* PubSub.peers    : peer id -> chan *RPC (index into chans)
    seenMessages,  \* PubSub.seenMessages : ids in insertion order, oldest first
    incoming,      \* PubSub.incoming : buffered chan of RPCs from receive workers
    chans,         \* every `messages` channel ever made by the newPeers case
                   \*   (the router only sends on it: n is how many frames it holds;
                   \*   pid is the remote peer of the stream its worker writes to;
                   \*   got is a history: the ids, still in the window, of the
                   \*   messages whose detached send has put its frame on it)
    subs,          \* every Subscription ever made by handleAddSubscription
                   \*   (n is how many messages its inbox ch holds)
    tasks,         \* detached `go func() { mch <- out }()` sends not yet done
    pc,            \* where processLoop is: select / blocked / panic / done
    work,          \* the rest of the handler the loop is executing
    ev,            \* history: what the handler of the latest event did
    delivered,     \* history: bag of <<handle, msg id>> put on inboxes in-window
    accepted,      \* history: msg id -> message that passed the seen gate in-window
    used,          \* how many RPCs were read and Publish calls made (for the bounds)
    cancelled,     \* ctx of NewFloodSub is cancelled
    parked,        \* topics of the Subscribe callers stopped at `p.addSub <-`
    ring           \* SpecRing only: three routers connected to one another
                   \*   (node -> its router record, the frames on its queues,
                   \*   the frames on the streams towards it, its p.incoming)

vars == <<myTopics, topics, peers, seenMessages, incoming, chans, subs, tasks,
          pc, work, ev, delivered, accepted, used, cancelled, parked, ring>>

----------------------------------------------------------------------------
(* Bounds of the model *)

\* make(chan ..., 32) at lines 82, 115 and 206, scaled down so that a full
\* channel is reached within the other bounds.
ChanCap == 1

\* Spec: subscriptions, announcements, hello and peers.  Over a run: topics in
\* use, Subscribe calls, newPeers events, RPCs read off the wire, Publish
\* calls; per message the length of TopicIDs; per RPC the subscription
\* options, the messages, and both together.
MaxTopics == 2
MaxSubs == 2
MaxStreams == 2
MaxRPCs == 1
MaxPublish == 1
MaxTopicIDs == 1
MaxRpcSubs == 0
MaxRpcMsgs == 0
MaxRpcItems == 0

Lim == [topics |-> MaxTopics, subs |-> MaxSubs, streams |-> MaxStreams,
        rpcs |-> MaxRPCs, pubs |-> MaxPublish, tids |-> MaxTopicIDs,
        rsubs |-> MaxRpcSubs, rmsgs |-> MaxRpcMsgs, items |-> MaxRpcItems]

\* SpecMsg: messages, their delivery and forwarding, and remote subscriptions.
MsgTopics == 1
MsgSubs == 1
MsgStreams == 1
MsgRPCs == 2
MsgPublish == 1
MsgTopicIDs == 2
MsgRpcSubs == 1
MsgRpcMsgs == 1
MsgRpcItems == 1

LimMsg == [topics |-> MsgTopics, subs |-> MsgSubs, streams |-> MsgStreams,
           rpcs |-> MsgRPCs, pubs |-> MsgPublish, tids |-> MsgTopicIDs,
           rsubs |-> MsgRpcSubs, rmsgs |-> MsgRpcMsgs, items |-> MsgRpcItems]

\* SpecPeers: the peers' registrations, their subscriptions and the queries.
PeersTopics == 1
PeersSubs == 1
PeersStreams == 2
PeersRPCs == 2
PeersPublish == 1
PeersTopicIDs == 1
PeersRpcSubs == 1
PeersRpcMsgs == 0
PeersRpcItems == 1

LimPeers == [topics |-> PeersTopics, subs |-> PeersSubs, streams |-> PeersStreams,
             rpcs |-> PeersRPCs, pubs |-> PeersPublish, tids |-> PeersTopicIDs,
             rsubs |-> PeersRpcSubs, rmsgs |-> PeersRpcMsgs, items |-> PeersRpcItems]

\* SpecStop: cancellation of ctx and the callers it leaves behind.
StopTopics == 1
StopSubs == 1
StopStreams == 1
StopRPCs == 1
StopPublish == 1
StopTopicIDs == 1
StopRpcSubs == 0
StopRpcMsgs == 1
StopRpcItems == 1

LimStop == [topics |-> StopTopics, subs |-> StopSubs, streams |-> StopStreams,
            rpcs |-> StopRPCs, pubs |-> StopPublish, tids |-> StopTopicIDs,
            rsubs |-> StopRpcSubs, rmsgs |-> StopRpcMsgs, items |-> StopRpcItems]

\* SpecFwd: one Publish and one incoming message, from every state of the
\* registrations and the remote subscriptions.
FwdTopics == 2
FwdSubs == 1
FwdStreams == 2
FwdRPCs == 1
FwdPublish == 1
FwdTopicIDs == 2
FwdRpcSubs == 0
FwdRpcMsgs == 1
FwdRpcItems == 1

LimFwd == [topics |-> FwdTopics, subs |-> FwdSubs, streams |-> FwdStreams,
           rpcs |-> FwdRPCs, pubs |-> FwdPublish, tids |-> FwdTopicIDs,
           rsubs |-> FwdRpcSubs, rmsgs |-> FwdRpcMsgs, items |-> FwdRpcItems]

----------------------------------------------------------------------------
(* Values *)

Host == "self"
Peer == {"p1", "p2"}
PeerID == Peer \cup {Host}
TopicNames == <<"t1", "t2", "t3">>
Topic(L) == {TopicNames[i] : i \in 1..L.topics}
Seqno == {1}

TopicLists(L) == UNION {[1..k -> Topic(L)] : k \in 1..L.tids}

\* pb.Message; Data is opaque to the router and left out.
Messages(L) == [from : PeerID, seqno : Seqno, topicIDs : TopicLists(L)]

SubOpts(L) == [topicid : Topic(L), subscribe : BOOLEAN]

SeqsUpTo(S, n) == UNION {[1..k -> S] : k \in 0..n}

\* The RPC frames a peer may send
RPCs(L) ==
    {r \in [subs : SeqsUpTo(SubOpts(L), L.rsubs), publish : SeqsUpTo(Messages(L), L.rmsgs)] :
        Len(r.subs) + Len(r.publish) <= L.items}

Range(f) == {f[x] : x \in DOMAIN f}

Put(f, k, v) == [x \in DOMAIN f \cup {k} |-> IF x = k THEN v ELSE f[x]]
Del(f, k) == [x \in DOMAIN f \ {k} |-> f[x]]
EmptyMap == [x \in {} |-> {}]

\* All enumerations of a finite set: the orders a Go map range may take.
Orders(S) == {o \in [1..Cardinality(S) -> S] : \A i, j \in DOMAIN o : i # j => o[i] # o[j]}

RECURSIVE Filter(_, _)
Filter(seq, S) ==
    IF seq = <<>> THEN <<>>
    ELSE IF Head(seq) \in S THEN <<Head(seq)>> \o Filter(Tail(seq), S)
    ELSE Filter(Tail(seq), S)

rpcWithSubs(subopt) == [subs |-> <<subopt>>, publish |-> <<>>]
rpcWithMessages(msg) == [subs |-> <<>>, publish |-> <<msg>>]

msgID(pmsg) == <<pmsg.from, pmsg.seqno>>


----------------------------------------------------------------------------
(* The router as a record, so that handlers compose as operators *)

Cur == [myTopics |-> myTopics, topics |-> topics, peers |-> peers,
        seen |-> seenMessages, chans |-> chans, subs |-> subs, tasks |-> tasks,
        pc |-> pc, work |-> work, ev |-> ev,
        delivered |-> delivered, accepted |-> accepted]

EvNone == [kind |-> "none", peer |-> Host, topic |-> "", h |-> 0, q |-> 0,
           msgs |-> <<>>, hello |-> <<>>, live |-> 0, regs |-> <<>>, ann |-> <<>>, fwd |-> EmptyBag,
           dlv |-> <<>>, dup |-> <<>>, drop |-> <<>>, acc |-> <<>>, out |-> {},
           seen0 |-> {}]

\* len(p.myTopics[t]) on a possibly absent key
LiveSubs(s, t) == IF t \in DOMAIN s.myTopics THEN s.myTopics[t] ELSE {}

seenMessageNever(s, id) == FALSE

seenMessage(s, id) == \E i \in DOMAIN s.seen : s.seen[i] = id

markSeenForgets(s, id) == s

markSeen(s, id) == [s EXCEPT !.seen = Append(@, id)]

subscribedToMsg(s, msg) ==
    \E i \in DOMAIN msg.topicIDs : msg.topicIDs[i] \in DOMAIN s.myTopics

\* announce: one blocking send per entry of p.peers, in map order
announce(s, topic, sub, ord) ==
    LET ps == Filter(ord.p, DOMAIN s.peers)
    IN [i \in DOMAIN ps |->
          [op |-> "send", q |-> s.peers[ps[i]],
           frame |-> rpcWithSubs([topicid |-> topic, subscribe |-> sub])]]

\* A buffered channel send that proceeds
Enq(c) == [c EXCEPT !.n = @ + 1]

\* `peer <- out`
sendPeer(s, w) ==
    LET c == s.chans[w.q]
    IN IF c.closed THEN [s EXCEPT !.pc = "panic"]
       ELSE IF c.n >= ChanCap THEN [s EXCEPT !.pc = "blocked"]
       ELSE [s EXCEPT !.chans[w.q] = Enq(@),
                      !.ev.ann = Append(@, [q |-> w.q, opt |-> w.frame.subs[1]]),
                      !.work = Tail(@)]

\* notifySubs, outer loop: one pass per element of msg.GetTopicIDs()
notifySubs(s, msg) ==
    [i \in DOMAIN msg.topicIDs |-> [op |-> "notifyTopic", topic |-> msg.topicIDs[i], msg |-> msg]]

\* notifySubs, inner loop: one blocking send per handle of the topic, in map order
notifyTopic(s, w, ord) ==
    LET hs == Filter(ord.h, LiveSubs(s, w.topic))
    IN [i \in DOMAIN hs |-> [op |-> "notify", h |-> hs[i], msg |-> w.msg]]

\* `f.ch <- &Message{msg}`
sendSub(s, w) ==
    LET f == s.subs[w.h]
    IN IF f.closed THEN [s EXCEPT !.pc = "panic"]
       ELSE IF f.n >= ChanCap THEN [s EXCEPT !.pc = "blocked"]
       ELSE [s EXCEPT !.subs[w.h] = Enq(@),
                      !.ev.dlv = Append(@, [h |-> w.h, msg |-> w.msg]),
                      !.delivered = IF seenMessage(s, msgID(w.msg))
                                    THEN @ (+) SetToBag({<<w.h, msgID(w.msg)>>})
                                    ELSE @,
                      !.work = Tail(@)]

tosendFirstTopic(s, msg) ==
    IF msg.topicIDs[1] \in DOMAIN s.topics THEN s.topics[msg.topicIDs[1]] ELSE {}

\* publishMessage: the peers of the message's topics
tosend(s, msg) ==
    UNION {s.topics[msg.topicIDs[i]] :
             i \in {j \in DOMAIN msg.topicIDs : msg.topicIDs[j] \in DOMAIN s.topics}}

fwdTargetsEcho(s, from, msg) ==
    {pid \in tosend(s, msg) : pid # from /\ pid \in DOMAIN s.peers}

\* publishMessage: the peers a send is started for
fwdTargets(s, from, msg) ==
    {pid \in tosend(s, msg) : pid # from /\ pid # msg.from /\ pid \in DOMAIN s.peers}

publishMessage(s, from, msg) ==
    LET to == fwdTargets(s, from, msg)
        out == rpcWithMessages(msg)
    IN [s EXCEPT
          !.tasks = @ (+) SetToBag({[q |-> s.peers[pid], frame |-> out] : pid \in to}),
          !.ev.fwd = @ (+) SetToBag({[from |-> from, msg |-> msg, to |-> pid, q |-> s.peers[pid]] : pid \in to}),
          !.work = Tail(@)]

maybePublishMessage(s, from, pmsg) ==
    LET id == msgID(pmsg)
    IN IF seenMessage(s, id)
       THEN [s EXCEPT !.ev.dup = Append(@, pmsg), !.work = Tail(@)]
       ELSE [markSeen(s, id) EXCEPT
               !.ev.acc = Append(@, pmsg),
               !.accepted = Put(@, id, pmsg),
               !.work = notifySubs(s, pmsg)
                        \o <<[op |-> "publishMessage", from |-> from, msg |-> pmsg]>>
                        \o Tail(@)]

\* handleIncomingRPC, second loop body
rpcPublish(s, from, pmsg) ==
    IF ~subscribedToMsg(s, pmsg)
    THEN [s EXCEPT !.ev.drop = Append(@, pmsg), !.work = Tail(@)]
    ELSE maybePublishMessage(s, from, pmsg)

\* handleAddSubscription after the announce
insertSub(s, topic) ==
    LET sub == [topic |-> topic, n |-> 0, closed |-> FALSE]
        h == Len(s.subs) + 1
    IN [s EXCEPT !.subs = Append(@, sub),
                 !.myTopics = Put(@, topic, LiveSubs(s, topic) \cup {h}),
                 !.ev.h = h,
                 !.work = Tail(@)]

\* One instruction of the handler in progress
Step(s, ord) ==
    LET w == Head(s.work)
    IN CASE w.op = "announce" ->
              [s EXCEPT !.work = announce(s, w.topic, w.sub, ord) \o Tail(@)]
         [] w.op = "send" -> sendPeer(s, w)
         [] w.op = "notifyTopic" ->
              [s EXCEPT !.work = notifyTopic(s, w, ord) \o Tail(@)]
         [] w.op = "notify" -> sendSub(s, w)
         [] w.op = "publishMessage" -> publishMessage(s, w.from, w.msg)
         [] w.op = "maybePublish" -> maybePublishMessage(s, w.from, w.msg)
         [] w.op = "rpcPublish" -> rpcPublish(s, w.from, w.msg)
         [] w.op = "insertSub" -> insertSub(s, w.topic)

\* Run the handler until it returns to the select or parks on a send.  (The
\* router after a step is bound as an element of a set, so that it is
\* computed once however often the next step refers to it.)
RECURSIVE Run(_, _)
Run(s, ord) ==
    IF s.pc # "run" THEN s
    ELSE IF s.work = <<>> THEN [s EXCEPT !.pc = "select"]
    ELSE CHOOSE r \in {Run(next, ord) : next \in {Step(s, ord)}} : TRUE

Commit(s) ==
    /\ myTopics' = s.myTopics
    /\ topics' = s.topics
    /\ peers' = s.peers
    /\ seenMessages' = s.seen
    /\ chans' = s.chans
    /\ subs' = s.subs
    /\ tasks' = s.tasks
    /\ pc' = s.pc
    /\ work' = s.work
    /\ ev' = s.ev
    /\ delivered' = s.delivered
    /\ accepted' = s.accepted

\* The iteration orders the map ranges of one run may take
MapOrders == [p : Orders(DOMAIN peers), h : Orders(DOMAIN subs)]

\* A handler entered from the select with the given instructions
Handle(e, w, s) ==
    \E ord \in MapOrders :
        Commit(Run([s EXCEPT !.pc = "run", !.work = w, !.ev = e], ord))


----------------------------------------------------------------------------
(* The events of processLoop *)

Init ==
    /\ myTopics = EmptyMap
    /\ topics = EmptyMap
    /\ peers = <<>>
    /\ seenMessages = <<>>
    /\ incoming = <<>>
    /\ chans = <<>>
    /\ subs = <<>>
    /\ tasks = EmptyBag
    /\ pc = "select"
    /\ work = <<>>
    /\ ev = EvNone
    /\ delivered = EmptyBag
    /\ accepted = <<>>
    /\ used = [rpc |-> 0, pub |-> 0]
    /\ cancelled = FALSE
    /\ parked = {}
    /\ ring = <<>>

\* The record of a new event: its kind, p.peers as it starts, and the ids seen
\* as it starts (SeenExpire takes an id out when its window ends)
Event(kind) ==
    [EvNone EXCEPT !.kind = kind, !.regs = peers,
                   !.seen0 = {seenMessages[i] : i \in DOMAIN seenMessages}]

\* getHelloPacket: subscribe=true for every key of myTopics, in map order
getHelloPacket(s, order) ==
    [subs |-> [i \in DOMAIN order |-> [topicid |-> order[i], subscribe |-> TRUE]],
     publish |-> <<>>]

\* close(ch): closing a closed channel panics
closeChan(s, q) ==
    IF s.chans[q].closed THEN [s EXCEPT !.pc = "panic"]
    ELSE [s EXCEPT !.chans[q].closed = TRUE]

\* the newPeers case
newPeer(s, pid, order) ==
    LET s0 == IF pid \in DOMAIN s.peers THEN closeChan(s, s.peers[pid]) ELSE s
        hello == getHelloPacket(s0, order)
        messages == Enq([n |-> 0, closed |-> FALSE, pid |-> pid, got |-> {}])
        q == Len(s.chans) + 1
    IN IF s0.pc = "panic" THEN s0
       ELSE [s0 EXCEPT !.chans = Append(@, messages),
                       !.peers = Put(@, pid, q),
                       !.ev.q = q,
                       !.ev.hello = <<hello>>]

\* case s := <-p.newPeers
NewPeer(L, pid) ==
    /\ pc = "select"
    /\ Len(chans) < L.streams
    /\ \E order \in Orders(DOMAIN myTopics) :
         Commit(newPeer([Cur EXCEPT !.ev = [Event("newPeer") EXCEPT !.peer = pid]], pid, order))
    /\ UNCHANGED <<incoming, used, cancelled, parked, ring>>

peerDeadKeepsEntry(s, pid) ==
    LET s0 == IF pid \in DOMAIN s.peers THEN closeChan(s, s.peers[pid]) ELSE s
    IN IF s0.pc = "panic" THEN s0
       ELSE [s0 EXCEPT !.topics = [t \in DOMAIN @ |-> @[t] \ {pid}]]

peerDeadDropsTopics(s, pid) ==
    LET s0 == IF pid \in DOMAIN s.peers THEN closeChan(s, s.peers[pid]) ELSE s
    IN IF s0.pc = "panic" THEN s0
       ELSE [s0 EXCEPT !.peers = Del(@, pid),
                       !.topics = [t \in {x \in DOMAIN @ : pid \notin @[x]} |-> @[t]]]

\* the peerDead case
peerDead(s, pid) ==
    LET s0 == IF pid \in DOMAIN s.peers THEN closeChan(s, s.peers[pid]) ELSE s
    IN IF s0.pc = "panic" THEN s0
       ELSE [s0 EXCEPT !.peers = Del(@, pid),
                       !.topics = [t \in DOMAIN @ |-> @[t] \ {pid}]]

\* case pid := <-p.peerDead
PeerDead(pid) ==
    /\ pc = "select"
    /\ Commit(peerDead([Cur EXCEPT !.ev = [Event("peerDead") EXCEPT !.peer = pid]], pid))
    /\ UNCHANGED <<incoming, used, cancelled, parked, ring>>

\* case pid := <-p.peerDead, posted for the remote peer of stream q when the
\* workers of that stream end
StreamDead(q) ==
    /\ pc = "select"
    /\ LET pid == chans[q].pid
       IN Commit(peerDead([Cur EXCEPT !.ev = [Event("peerDead") EXCEPT !.peer = pid, !.q = q]], pid))
    /\ UNCHANGED <<incoming, used, cancelled, parked, ring>>

getTopicsKeys(s) == DOMAIN s.myTopics

\* the getTopics case: the topics with len(subs) > 0
getTopicsReply(s) == {t \in DOMAIN s.myTopics : Cardinality(s.myTopics[t]) > 0}

\* case treq := <-p.getTopics
GetTopics ==
    /\ pc = "select"
    /\ Commit([Cur EXCEPT !.ev = [Event("getTopics") EXCEPT !.out = getTopicsReply(Cur)]])
    /\ UNCHANGED <<incoming, used, cancelled, parked, ring>>

getPeersOfTopic(s, topic) ==
    IF topic = "" THEN DOMAIN s.peers
    ELSE IF topic \notin DOMAIN s.topics THEN {}
    ELSE s.topics[topic]

\* the getPeers case: nil for a topic without entry, else the keys of p.peers
\* that are in the topic's map (all of them for the empty topic)
getPeersReply(s, topic) ==
    LET ok == topic \in DOMAIN s.topics
    IN IF topic # "" /\ ~ok THEN {}
       ELSE {p \in DOMAIN s.peers : topic # "" => p \in s.topics[topic]}

\* case preq := <-p.getPeers
GetPeers(topic) ==
    /\ pc = "select"
    /\ Commit([Cur EXCEPT !.ev = [Event("getPeers") EXCEPT !.topic = topic,
                                     !.out = getPeersReply(Cur, topic)]])
    /\ UNCHANGED <<incoming, used, cancelled, parked, ring>>

\* handleRemoveSubscription up to the announce
removeSub(s, h) ==
    LET sub == s.subs[h]
    IN IF sub.closed THEN [s EXCEPT !.pc = "panic"]
       ELSE [s EXCEPT !.subs[h].closed = TRUE,
                      !.myTopics[sub.topic] = @ \ {h},
                      !.work = IF s.myTopics[sub.topic] \ {h} = {}
                               THEN <<[op |-> "announce", topic |-> sub.topic, sub |-> FALSE]>>
                               ELSE <<>>]

\* case sub := <-p.cancelCh
handleRemoveSubscription(h) ==
    /\ pc = "select"
    /\ LET sub == subs[h]
           e == [Event("cancel") EXCEPT !.h = h, !.topic = sub.topic,
                    !.live = Cardinality(LiveSubs(Cur, sub.topic))]
           s0 == [Cur EXCEPT !.pc = "run", !.ev = e]
       IN IF sub.topic \notin DOMAIN myTopics
          THEN Commit([s0 EXCEPT !.pc = "select"])
          ELSE \E ord \in MapOrders : Commit(Run(removeSub(s0, h), ord))
    /\ UNCHANGED <<incoming, used, cancelled, parked, ring>>

addSubAnnounceAlways(s, topic) ==
    <<[op |-> "announce", topic |-> topic, sub |-> TRUE],
      [op |-> "insertSub", topic |-> topic]>>

\* handleAddSubscription: announce if len(subs) == 0, then insert
addSub(s, topic) ==
    (IF Cardinality(LiveSubs(s, topic)) = 0
     THEN <<[op |-> "announce", topic |-> topic, sub |-> TRUE]>> ELSE <<>>)
    \o <<[op |-> "insertSub", topic |-> topic]>>

\* case sub := <-p.addSub
handleAddSubscription(L, topic) ==
    /\ pc = "select"
    /\ Len(subs) < L.subs
    /\ LET e == [Event("addSub") EXCEPT !.topic = topic,
                    !.live = Cardinality(LiveSubs(Cur, topic))]
       IN Handle(e, addSub(Cur, topic), Cur)
    /\ UNCHANGED <<incoming, used, cancelled, parked, ring>>

\* handleIncomingRPC, first loop
RECURSIVE applySubOpts(_, _, _)
applySubOpts(tm, from, opts) ==
    IF opts = <<>> THEN tm
    ELSE LET t == Head(opts).topicid
             next == IF Head(opts).subscribe
                     THEN Put(tm, t, (IF t \in DOMAIN tm THEN tm[t] ELSE {}) \cup {from})
                     ELSE IF t \notin DOMAIN tm THEN tm
                     ELSE [tm EXCEPT ![t] = @ \ {from}]
         IN applySubOpts(next, from, Tail(opts))

\* case rpc := <-p.incoming
handleIncomingRPC ==
    /\ pc = "select"
    /\ incoming # <<>>
    /\ LET rpc == Head(incoming)
           e == [Event("rpc") EXCEPT !.peer = rpc.from, !.msgs = rpc.publish]
           w == [i \in DOMAIN rpc.publish |->
                   [op |-> "rpcPublish", from |-> rpc.from, msg |-> rpc.publish[i]]]
       IN Handle(e, w, [Cur EXCEPT !.topics = applySubOpts(@, rpc.from, rpc.subs)])
    /\ incoming' = Tail(incoming)
    /\ UNCHANGED <<used, cancelled, parked, ring>>

\* Publish, and case msg := <-p.publish
Publish(L, topic, seqno) ==
    /\ pc = "select"
    /\ used.pub < L.pubs
    /\ LET msg == [from |-> Host, seqno |-> seqno, topicIDs |-> <<topic>>]
           e == [Event("publish") EXCEPT !.msgs = <<msg>>]
       IN Handle(e, <<[op |-> "maybePublish", from |-> Host, msg |-> msg]>>, Cur)
    /\ used' = [used EXCEPT !.pub = @ + 1]
    /\ UNCHANGED <<incoming, cancelled, parked, ring>>

\* case <-ctx.Done(): the loop returns (if ctx was not cancelled before, it
\* is now, and the loop sees it at once)
Shutdown ==
    /\ pc = "select"
    /\ pc' = "done"
    /\ cancelled' = TRUE
    /\ ev' = Event("done")
    /\ UNCHANGED <<myTopics, topics, peers, seenMessages, incoming, chans, subs,
                   tasks, work, delivered, accepted, used, parked, ring>>

\* The parked send can proceed: the handler goes on from where it stopped
LoopResume ==
    /\ pc = "blocked"
    /\ LET w == Head(work)
       IN IF w.op = "send" THEN chans[w.q].n < ChanCap
          ELSE subs[w.h].n < ChanCap
    /\ \E ord \in MapOrders : Commit(Run([Cur EXCEPT !.pc = "run"], ord))
    /\ UNCHANGED <<incoming, used, cancelled, parked, ring>>


----------------------------------------------------------------------------
(* The other goroutines *)

Running == pc \notin {"panic", "done"}

\* ev describes the loop's latest handler until another goroutine moves
Others == ev' = IF pc = "blocked" THEN ev ELSE EvNone

\* receive worker: a frame read from pid's stream is posted to p.incoming
RecvRPC(L, pid, frame) ==
    /\ Running
    /\ ~cancelled
    /\ used.rpc < L.rpcs
    /\ Len(incoming) < ChanCap
    /\ incoming' = Append(incoming, [from |-> pid, subs |-> frame.subs, publish |-> frame.publish])
    /\ used' = [used EXCEPT !.rpc = @ + 1]
    /\ Others
    /\ UNCHANGED <<myTopics, topics, peers, seenMessages, chans, subs, tasks, pc,
                   work, delivered, accepted, cancelled, parked, ring>>

\* send worker (handleSendingMessages): takes the next frame off its channel
SendWorker(q) ==
    /\ Running
    /\ ~cancelled
    /\ chans[q].n > 0
    /\ chans' = [chans EXCEPT ![q].n = @ - 1]
    /\ Others
    /\ UNCHANGED <<myTopics, topics, peers, seenMessages, incoming, subs, tasks, pc,
                   work, delivered, accepted, used, cancelled, parked, ring>>

\* the application reads the next message of a subscription
SubNext(h) ==
    /\ Running
    /\ subs[h].n > 0
    /\ subs' = [subs EXCEPT ![h].n = @ - 1]
    /\ Others
    /\ UNCHANGED <<myTopics, topics, peers, seenMessages, incoming, chans, tasks, pc,
                   work, delivered, accepted, used, cancelled, parked, ring>>

TaskSendTwice(t) ==
    /\ Running
    /\ BagIn(t, tasks)
    /\ ~chans[t.q].closed
    /\ chans[t.q].n < ChanCap
    /\ chans' = [chans EXCEPT ![t.q] = [Enq(@) EXCEPT !.got = @ \cup {msgID(t.frame.publish[1])}]]
    /\ UNCHANGED <<tasks, pc>>
    /\ Others
    /\ UNCHANGED <<myTopics, topics, peers, seenMessages, incoming, subs,
                   work, delivered, accepted, used, cancelled, parked, ring>>

\* `go func() { mch <- out }()`: the send on the captured channel
TaskSend(t) ==
    /\ Running
    /\ BagIn(t, tasks)
    /\ IF chans[t.q].closed
       THEN /\ pc' = "panic"
            /\ ev' = [EvNone EXCEPT !.kind = "detachedSend", !.q = t.q]
            /\ UNCHANGED <<chans, tasks>>
       ELSE /\ chans[t.q].n < ChanCap
            /\ chans' = [chans EXCEPT ![t.q] =
                           [Enq(@) EXCEPT !.got = @ \cup {msgID(t.frame.publish[1])}]]
            /\ tasks' = tasks (-) SetToBag({t})
            /\ pc' = pc
            /\ Others
    /\ UNCHANGED <<myTopics, topics, peers, seenMessages, incoming, subs,
                   work, delivered, accepted, used, cancelled, parked, ring>>

\* timecache: the oldest entry leaves the window (and the histories of its id)
SeenExpire ==
    /\ Running
    /\ seenMessages # <<>>
    /\ LET id == Head(seenMessages)
       IN /\ seenMessages' = Tail(seenMessages)
          /\ delivered' = [x \in {y \in DOMAIN delivered : y[2] # id} |-> delivered[x]]
          /\ accepted' = Del(accepted, id)
          /\ chans' = [q \in DOMAIN chans |-> [chans[q] EXCEPT !.got = @ \ {id}]]
          /\ ev' = IF pc = "blocked" THEN [ev EXCEPT !.seen0 = @ \ {id}] ELSE EvNone
    /\ UNCHANGED <<myTopics, topics, peers, incoming, subs, tasks, pc,
                   work, used, cancelled, parked, ring>>

\* ctx is cancelled while the loop is anywhere
Cancel ==
    /\ Running
    /\ ~cancelled
    /\ cancelled' = TRUE
    /\ Others
    /\ UNCHANGED <<myTopics, topics, peers, seenMessages, incoming, chans, subs, tasks,
                   pc, work, delivered, accepted, used, parked, ring>>

\* Subscribe called after the loop has returned: the caller stops at
\* `p.addSub <- &addSubReq{...}`, an unbuffered channel nobody receives from
\* any more.  (A call made while the loop is at its select is received there:
\* handleAddSubscription.)
Subscribe(topic) ==
    /\ pc = "done"
    /\ parked = {}
    /\ parked' = {topic}
    /\ UNCHANGED <<myTopics, topics, peers, seenMessages, incoming, chans, subs, tasks,
                   pc, work, ev, delivered, accepted, used, cancelled, ring>>

\* processLoop
Loop(L) ==
    \/ \E pid \in Peer : NewPeer(L, pid)
    \/ \E pid \in Peer : PeerDead(pid)
    \/ \E h \in DOMAIN subs : handleRemoveSubscription(h)
    \/ \E topic \in Topic(L) : handleAddSubscription(L, topic)
    \/ handleIncomingRPC
    \/ \E topic \in Topic(L), seqno \in Seqno : Publish(L, topic, seqno)
    \/ Shutdown
    \/ LoopResume

\* the workers, the application reading its inboxes, and time
Workers(L) ==
    \/ \E pid \in Peer, frame \in RPCs(L) : RecvRPC(L, pid, frame)
    \/ \E q \in DOMAIN chans : SendWorker(q)
    \/ \E h \in DOMAIN subs : SubNext(h)
    \/ SeenExpire

\* the detached sends of publishMessage
Detached == \E t \in BagToSet(tasks) : TaskSend(t)

\* the callers that only ask
Queries(L) ==
    \/ GetTopics
    \/ \E topic \in Topic(L) \cup {""} : GetPeers(topic)

\* Local subscriptions, announcements, hello and peers.  No peer announces a
\* subscription within these bounds, so p.topics stays empty and no detached
\* send is ever started.
Next == Loop(Lim) \/ Workers(Lim) \/ Queries(Lim)

Spec == Init /\ [][Next]_vars

\* Messages: the seen gate, local delivery and forwarding.
NextMsg == Loop(LimMsg) \/ Workers(LimMsg) \/ Detached

SpecMsg == Init /\ [][NextMsg]_vars

\* Peers: registrations, remote subscriptions, the queries and the sends
\* publishMessage starts.
NextPeers ==
    \/ Loop(LimPeers)
    \/ Workers(LimPeers)
    \/ Detached
    \/ Queries(LimPeers)
    \/ \E q \in DOMAIN chans : StreamDead(q)

SpecPeers == Init /\ [][NextPeers]_vars

\* Stop: ctx is cancelled at any moment, and Subscribe is called afterwards.
\* No peer announces a subscription within these bounds, so no detached send
\* is started.
NextStop ==
    \/ Loop(LimStop)
    \/ Workers(LimStop)
    \/ Cancel
    \/ \E topic \in Topic(LimStop) : Subscribe(topic)

SpecStop == Init /\ [][NextStop]_vars

\* The router after some peers came up (their hello written out by the send
\* workers), some peers, registered or not, announced subscriptions, and the
\* host subscribed to the first topic or to none.
InitFwd ==
    \E reg \in SUBSET Peer, tm \in [Topic(LimFwd) -> SUBSET Peer], live \in BOOLEAN :
      \E o \in Orders(reg) :
        /\ Cardinality(reg) <= LimFwd.streams
        /\ peers = [pid \in reg |-> CHOOSE i \in DOMAIN o : o[i] = pid]
        /\ chans = [q \in DOMAIN o |-> [n |-> 0, closed |-> FALSE, pid |-> o[q], got |-> {}]]
        /\ topics = tm
        /\ myTopics = IF live THEN [t \in {TopicNames[1]} |-> {1}] ELSE EmptyMap
        /\ subs = IF live THEN <<[topic |-> TopicNames[1], n |-> 0, closed |-> FALSE]>> ELSE <<>>
        /\ seenMessages = <<>>
        /\ incoming = <<>>
        /\ tasks = EmptyBag
        /\ pc = "select"
        /\ work = <<>>
        /\ ev = EvNone
        /\ delivered = EmptyBag
        /\ accepted = <<>>
        /\ used = [rpc |-> 0, pub |-> 0]
        /\ cancelled = FALSE
        /\ parked = {}
        /\ ring = <<>>

\* Forwarding: what publishMessage starts for a Publish and for a message of
\* an RPC, the sends completing, and a Subscribe announced meanwhile.  No id
\* leaves the seen window.
NextFwd ==
    \/ \E pid \in Peer, frame \in RPCs(LimFwd) : RecvRPC(LimFwd, pid, frame)
    \/ handleIncomingRPC
    \/ \E topic \in Topic(LimFwd), seqno \in Seqno : Publish(LimFwd, topic, seqno)
    \/ \E topic \in Topic(LimFwd) : handleAddSubscription(LimFwd, topic)
    \/ LoopResume
    \/ Detached
    \/ \E q \in DOMAIN chans : SendWorker(q)
    \/ \E h \in DOMAIN subs : SubNext(h)

SpecFwd == InitFwd /\ [][NextFwd]_vars

----------------------------------------------------------------------------
(* Three routers in a ring *)

Nodes == <<"n1", "n2", "n3">>
Node == Range(Nodes)

RingTopic == TopicNames[1]

\* The neighbours of n, in the order their streams were opened
Neighbours(n) == Filter(Nodes, Node \ {n})

\* A router after NewFloodSub, a newPeers event per neighbour, and one
\* Subscribe on the topic; its hello packets and its announcement were written
\* out by the send workers, and the neighbours' ones were handled: p.topics
\* lists both neighbours.
RingRouter(n) ==
    LET o == Neighbours(n)
    IN [myTopics |-> [t \in {RingTopic} |-> {1}],
        topics |-> [t \in {RingTopic} |-> Node \ {n}],
        peers |-> [pid \in Node \ {n} |-> CHOOSE i \in DOMAIN o : o[i] = pid],
        seen |-> <<>>,
        chans |-> [q \in DOMAIN o |-> [n |-> 0, closed |-> FALSE, pid |-> o[q], got |-> {}]],
        subs |-> <<[topic |-> RingTopic, n |-> 0, closed |-> FALSE]>>,
        tasks |-> EmptyBag,
        pc |-> "select", work |-> <<>>, ev |-> EvNone,
        delivered |-> EmptyBag, accepted |-> <<>>]

InitRing ==
    /\ ring = [n \in Node |->
                 [r |-> RingRouter(n),
                  out |-> [q \in DOMAIN Neighbours(n) |-> <<>>],
                  wire |-> [pid \in Node \ {n} |-> <<>>],
                  incoming |-> <<>>,
                  pub |-> 0]]
    /\ myTopics = EmptyMap
    /\ topics = EmptyMap
    /\ peers = <<>>
    /\ seenMessages = <<>>
    /\ incoming = <<>>
    /\ chans = <<>>
    /\ subs = <<>>
    /\ tasks = EmptyBag
    /\ pc = "select"
    /\ work = <<>>
    /\ ev = EvNone
    /\ delivered = EmptyBag
    /\ accepted = <<>>
    /\ used = [rpc |-> 0, pub |-> 0]
    /\ cancelled = FALSE
    /\ parked = {}

RingRest ==
    UNCHANGED <<myTopics, topics, peers, seenMessages, incoming, chans, subs, tasks,
                pc, work, ev, delivered, accepted, used, cancelled, parked>>

\* The iteration orders the map ranges of one run of router r may take
RingOrders(r) == [p : Orders(DOMAIN r.peers), h : Orders(DOMAIN r.subs)]

\* Publish on node n, and case msg := <-p.publish of its loop
RingPublish(n) ==
    /\ ring[n].r.pc = "select"
    /\ ring[n].pub = 0
    /\ LET msg == [from |-> n, seqno |-> 1, topicIDs |-> <<RingTopic>>]
           e == [EvNone EXCEPT !.kind = "publish", !.msgs = <<msg>>]
           w == <<[op |-> "maybePublish", from |-> n, msg |-> msg]>>
       IN \E ord \in RingOrders(ring[n].r) :
            ring' = [ring EXCEPT
                       ![n].r = Run([@ EXCEPT !.pc = "run", !.work = w, !.ev = e], ord),
                       ![n].pub = 1]
    /\ RingRest

\* case rpc := <-p.incoming of node n's loop
RingIncomingRPC(n) ==
    /\ ring[n].r.pc = "select"
    /\ ring[n].incoming # <<>>
    /\ LET rpc == Head(ring[n].incoming)
           e == [EvNone EXCEPT !.kind = "rpc", !.peer = rpc.from, !.msgs = rpc.publish]
           w == [i \in DOMAIN rpc.publish |->
                   [op |-> "rpcPublish", from |-> rpc.from, msg |-> rpc.publish[i]]]
       IN \E ord \in RingOrders(ring[n].r) :
            ring' = [ring EXCEPT
                       ![n].r = Run([@ EXCEPT !.topics = applySubOpts(@, rpc.from, rpc.subs),
                                              !.pc = "run", !.work = w, !.ev = e], ord),
                       ![n].incoming = Tail(@)]
    /\ RingRest

\* `go func() { mch <- out }()` on node n
RingTaskSend(n, t) ==
    /\ ring[n].r.pc \notin {"panic", "done"}
    /\ BagIn(t, ring[n].r.tasks)
    /\ IF ring[n].r.chans[t.q].closed
       THEN ring' = [ring EXCEPT ![n].r.pc = "panic"]
       ELSE /\ ring[n].r.chans[t.q].n < ChanCap
            /\ ring' = [ring EXCEPT ![n].r.chans[t.q] = Enq(@),
                                    ![n].r.tasks = @ (-) SetToBag({t}),
                                    ![n].out[t.q] = Append(@, t.frame)]
    /\ RingRest

\* send worker of node n's queue q: the next frame goes on the stream
RingSendWorker(n, q) ==
    /\ ring[n].r.pc \notin {"panic", "done"}
    /\ ring[n].r.chans[q].n > 0
    /\ LET to == ring[n].r.chans[q].pid
       IN ring' = [ring EXCEPT ![n].r.chans[q].n = @ - 1,
                               ![n].out[q] = Tail(@),
                               ![to].wire[n] = Append(@, Head(ring[n].out[q]))]
    /\ RingRest

\* receive worker of node n's stream from pid: the next frame is posted to
\* p.incoming
RingRecvRPC(n, pid) ==
    /\ ring[n].r.pc \notin {"panic", "done"}
    /\ ring[n].wire[pid] # <<>>
    /\ Len(ring[n].incoming) < ChanCap
    /\ LET frame == Head(ring[n].wire[pid])
       IN ring' = [ring EXCEPT
                     ![n].wire[pid] = Tail(@),
                     ![n].incoming = Append(@, [from |-> pid, subs |-> frame.subs,
                                                publish |-> frame.publish])]
    /\ RingRest

\* the application of node n reads the next message of its subscription
RingSubNext(n, h) ==
    /\ ring[n].r.pc \notin {"panic", "done"}
    /\ ring[n].r.subs[h].n > 0
    /\ ring' = [ring EXCEPT ![n].r.subs[h].n = @ - 1]
    /\ RingRest

NextRing ==
    \/ RingPublish(Nodes[1])
    \/ \E n \in Node : RingIncomingRPC(n)
    \/ \E n \in Node : \E t \in BagToSet(ring[n].r.tasks) : RingTaskSend(n, t)
    \/ \E n \in Node : \E q \in DOMAIN ring[n].r.chans : RingSendWorker(n, q)
    \/ \E n \in Node : \E pid \in Node \ {n} : RingRecvRPC(n, pid)
    \/ \E n \in Node : \E h \in DOMAIN ring[n].r.subs : RingSubNext(n, h)

\* The steps of the routers and of their workers, as opposed to those of the
\* applications
RingProgress ==
    \/ \E n \in Node : RingIncomingRPC(n)
    \/ \E n \in Node : \E t \in BagToSet(ring[n].r.tasks) : RingTaskSend(n, t)
    \/ \E n \in Node : \E q \in DOMAIN ring[n].r.chans : RingSendWorker(n, q)
    \/ \E n \in Node : \E pid \in Node \ {n} : RingRecvRPC(n, pid)

\* The Go scheduler runs every goroutine that can run, so as long as some
\* loop, detached send, send worker or receive worker can take a step, one of
\* them does.  Nothing obliges the application to publish or to read.
RingFair == WF_vars(RingProgress)

SpecRing == InitRing /\ [][NextRing]_vars /\ RingFair

----------------------------------------------------------------------------
(* Properties *)


\* The router's own state, without the channel of incoming frames
router == <<myTopics, topics, peers, seenMessages, chans, subs, tasks>>

\* The handles of a topic that were not cancelled
LiveHandles(t) == {h \in DOMAIN subs : subs[h].topic = t /\ ~subs[h].closed}

\* C1: a message whose id was in the seen set when the handler started, and
\* has not left the window since, is neither delivered nor forwarded by that
\* handler; and a publish or an RPC all of whose messages were already seen
\* leaves the router's state, the deliveries and the started sends as they
\* were (an RPC still applies its subscription options to p.topics).
C1_SeenMessageChangesNothing ==
    [][ev'.kind \in {"publish", "rpc"} =>
          /\ \A i \in DOMAIN ev'.dlv : msgID(ev'.dlv[i].msg) \notin ev'.seen0
          /\ \A r \in BagToSet(ev'.fwd) : msgID(r.msg) \notin ev'.seen0
          /\ (pc = "select" /\ \A i \in DOMAIN ev'.msgs : msgID(ev'.msgs[i]) \in ev'.seen0)
                => /\ pc' = "select"
                   /\ UNCHANGED <<myTopics, peers, seenMessages, chans, subs, tasks,
                                  delivered, accepted>>
                   /\ ev'.kind = "publish" => UNCHANGED topics
                   /\ ev'.kind = "rpc" => topics' = applySubOpts(topics, ev'.peer, Head(incoming).subs)
       ]_vars

\* C1: an RPC brought a message already seen that a live handle would have
\* received
C1_Witness ==
    /\ ev.kind = "rpc"
    /\ \E i \in DOMAIN ev.dup : \E j \in DOMAIN ev.dup[i].topicIDs :
          LiveSubs(Cur, ev.dup[i].topicIDs[j]) # {}

\* C2: within the window no handle's inbox receives a message id more than
\* once, whatever the list of topic ids of the message.
C2_AtMostOncePerHandle == \A x \in DOMAIN delivered : delivered[x] <= 1

\* C3: no send is started to the peer the message arrived from, nor to the
\* peer named in its from field, nor onto the queue registered for either.
C3_NoEcho ==
    \A r \in BagToSet(ev.fwd) :
        /\ r.to \notin {r.from, r.msg.from}
        /\ \A p \in {r.from, r.msg.from} \cap DOMAIN ev.regs : r.q # ev.regs[p]

\* C3: an accepted message whose sender or originator is a registered peer
\* subscribed to one of its topics
C3_Witness ==
    \E i \in DOMAIN ev.acc :
        tosend(Cur, ev.acc[i]) \cap {ev.peer, ev.acc[i].from} \cap DOMAIN peers # {}

\* C4: between two events of the loop every peer listed under a topic of
\* p.topics is a key of p.peers.
C4_RemoteTopicsWithinPeers ==
    pc = "select" => \A t \in DOMAIN topics : topics[t] \subseteq DOMAIN peers

\* The announcements of the latest handler that put opt on the queue of peer p
Announced(p, opt) ==
    Cardinality({i \in DOMAIN ev.ann : ev.ann[i] = [q |-> ev.regs[p], opt |-> opt]})

\* C5: an add or a cancel that has returned (or crashed) has sent every
\* registered peer exactly one subscribe=true for its topic if it took the
\* topic's live handles from none to some, exactly one subscribe=false if it
\* took them from some to none, and nothing else to anyone.
C5_OneAnnouncementPerTransition ==
    (ev.kind \in {"addSub", "cancel"} /\ pc \in {"select", "panic"}) =>
        LET t == ev.topic
            before == ev.live
            now == Cardinality(LiveHandles(t))
            up == IF before = 0 /\ now > 0 THEN 1 ELSE 0
            down == IF before > 0 /\ now = 0 THEN 1 ELSE 0
        IN /\ \A p \in DOMAIN ev.regs :
                /\ Announced(p, [topicid |-> t, subscribe |-> TRUE]) = up
                /\ Announced(p, [topicid |-> t, subscribe |-> FALSE]) = down
           /\ Len(ev.ann) = (up + down) * Cardinality(DOMAIN ev.regs)

\* C5: the last live handle of a topic was cancelled with two peers registered,
\* and a handle was added to a topic that already had one
C5_Witness ==
    \/ /\ ev.kind = "cancel" /\ pc = "select" /\ ev.live = 1
       /\ Cardinality(DOMAIN ev.regs) = 2 /\ Len(ev.ann) = 2
    \/ /\ ev.kind = "addSub" /\ pc = "select" /\ ev.live = 1
       /\ Cardinality(DOMAIN ev.regs) = 2 /\ Len(ev.ann) = 0

\* The topics with a handle that was not cancelled
LiveTopics == {subs[h].topic : h \in {k \in DOMAIN subs : ~subs[k].closed}}

\* C6: at a peer-up the hello is the one frame on the new queue, and it lists
\* subscribe=true for exactly the topics with a live handle.
C6_HelloListsLiveTopics ==
    ev.kind = "newPeer" =>
        /\ peers[ev.peer] = ev.q
        /\ chans[ev.q].n = 1
        /\ \A i \in DOMAIN ev.hello[1].subs : ev.hello[1].subs[i].subscribe
        /\ {ev.hello[1].subs[i].topicid : i \in DOMAIN ev.hello[1].subs} = LiveTopics

\* C7: the loop never waits for a full queue to be drained.
C7_LoopNeverSuspends == pc # "blocked"

\* C8: a cancel of a handle already cancelled returns to the select and leaves
\* the router's state as it was: no second close, no announcement.
C8_CancelIdempotent ==
    [][(pc = "select" /\ ev'.kind = "cancel" /\ subs[ev'.h].closed) =>
          /\ pc' = "select"
          /\ ev'.ann = <<>>
          /\ UNCHANGED router
       ]_vars

\* C9: a message of an incoming RPC none of whose topics has a live handle is
\* not accepted: not delivered, not marked seen, not forwarded; and the sender
\* stays registered.
C9_UnsubscribedDropped ==
    ev.kind = "rpc" =>
        \A i \in DOMAIN ev.msgs :
            LET m == ev.msgs[i]
            IN (\A j \in DOMAIN m.topicIDs : LiveHandles(m.topicIDs[j]) = {}) =>
                 /\ \A k \in DOMAIN ev.acc : ev.acc[k] # m
                 /\ \A k \in DOMAIN ev.dlv : ev.dlv[k].msg # m
                 /\ \A r \in BagToSet(ev.fwd) : r.msg # m
                 /\ seenMessage(Cur, msgID(m)) => msgID(m) \in ev.seen0
                 /\ ev.peer \in DOMAIN ev.regs => ev.peer \in DOMAIN peers

\* C10: the reply to GetTopics is exactly the set of topics with a handle that
\* was not cancelled, and handling the request changes nothing of the router.
C10_GetTopicsLive ==
    [][ev'.kind = "getTopics" => (ev'.out = LiveTopics /\ UNCHANGED router)]_vars

\* C10: a reply that names one topic while another, all of whose handles were
\* cancelled, is still a key of p.myTopics
C10_Witness ==
    ev.kind = "getTopics" /\ ev.out # {} /\ ev.out # DOMAIN myTopics

\* C11: the reply to ListPeers("") is the key set of p.peers, the reply for a
\* topic without entry in p.topics is empty, and otherwise it is the keys of
\* p.peers listed under the topic; a peer whose peer-down was just handled is
\* in no reply.
C11_ListPeers ==
    [][ev'.kind = "getPeers" =>
          /\ ev'.out = (IF ev'.topic = "" THEN DOMAIN peers
                         ELSE IF ev'.topic \notin DOMAIN topics THEN {}
                         ELSE DOMAIN peers \cap topics[ev'.topic])
          /\ ev.kind = "peerDead" => ev.peer \notin ev'.out
          /\ \A q \in {peers[p] : p \in ev'.out} : ~chans[q].closed
       ]_vars

\* C11: a query for a topic under which a registered peer and one that is not
\* registered are both listed
C11_Witness ==
    /\ ev.kind = "getPeers" /\ ev.topic # "" /\ ev.out # {}
    /\ ev.topic \in DOMAIN topics /\ topics[ev.topic] \ DOMAIN peers # {}

\* C12: a Subscribe call made once the loop has returned is not left stopped
\* at its send on p.addSub: it returns (with an error).
C12_SubscribeReturnsAtShutdown == pc = "done" => parked = {}

\* C13: once ctx is cancelled the loop exits: until it has, something that
\* leads there can still happen (the loop is not stuck for good).
C13_LoopExitsOnceCancelled ==
    cancelled => (pc \in {"done", "panic"} \/ ENABLED NextStop)

\* The peers a frame with m must be started for when it came from peer from
ExpectedTargets(m, from) ==
    {p \in DOMAIN peers :
        /\ p \notin {from, m.from}
        /\ \E i \in DOMAIN m.topicIDs :
              m.topicIDs[i] \in DOMAIN topics /\ p \in topics[m.topicIDs[i]]}

\* How many sends of m to peer p the latest handler started
Started(m, p) ==
    LET rs == {r \in BagToSet(ev.fwd) : r.msg = m /\ r.to = p}
    IN IF rs = {} THEN 0 ELSE CopiesIn(CHOOSE r \in rs : TRUE, ev.fwd) + Cardinality(rs) - 1

\* C14: when a Publish or an RPC has been handled, exactly one send was
\* started, on the queue registered for the peer, to every registered peer
\* listed under some topic of each accepted message other than the sender and
\* the originator, and none to anyone else nor for any other message.
C14_ForwardingSet ==
    (ev.kind \in {"publish", "rpc"} /\ pc = "select") =>
        /\ \A i \in DOMAIN ev.acc : \A p \in PeerID :
              Started(ev.acc[i], p) = IF p \in ExpectedTargets(ev.acc[i], ev.peer) THEN 1 ELSE 0
        /\ \A r \in BagToSet(ev.fwd) :
              /\ \E i \in DOMAIN ev.acc : ev.acc[i] = r.msg
              /\ r.q = peers[r.to]
              /\ BagIn([q |-> r.q, frame |-> rpcWithMessages(r.msg)], tasks)

\* C14: a message on two topics was forwarded to a peer listed under both
C14_Witness ==
    /\ ev.kind = "rpc" /\ pc = "select"
    /\ \E r \in BagToSet(ev.fwd) :
          /\ Len(r.msg.topicIDs) = 2 /\ r.msg.topicIDs[1] # r.msg.topicIDs[2]
          /\ \A i \in 1..2 : r.to \in topics[r.msg.topicIDs[i]]

\* C15: a queue is open exactly while it is the one registered for a peer, so
\* a queue removed from p.peers or replaced there has been closed; and no
\* peer-up or peer-down closes a queue a second time (which would panic).
C15_QueueClosedOnce ==
    /\ \A q \in DOMAIN chans : chans[q].closed <=> (\A p \in DOMAIN peers : peers[p] # q)
    /\ ev.kind \in {"newPeer", "peerDead"} => pc # "panic"

\* C15: a peer-down for a peer that is not registered, after two queues were
\* made and closed
C15_Witness ==
    /\ ev.kind = "peerDead" /\ ev.peer \notin DOMAIN ev.regs
    /\ Len(chans) = 2 /\ chans[1].closed /\ chans[2].closed

\* C16: a peer-down posted when the workers of an older stream of a peer end
\* leaves the queue of the peer's newer stream registered and open.
C16_NewerStreamWins ==
    (/\ ev.kind = "peerDead" /\ pc = "select" /\ ev.q # 0
     /\ ev.peer \in DOMAIN ev.regs /\ ev.regs[ev.peer] # ev.q) =>
        /\ ev.peer \in DOMAIN peers
        /\ peers[ev.peer] = ev.regs[ev.peer]
        /\ ~chans[ev.regs[ev.peer]].closed

\* C17: handling a peer-down for P takes P out of p.peers and out of every
\* set of p.topics and closes the queue that was registered for P, and nothing
\* else: every other registration, queue and membership, p.myTopics, the
\* subscriptions and their inboxes, the seen set and the started sends stay.
C17_PeerDownLocal ==
    [][(ev'.kind = "peerDead" /\ pc = "select") =>
          LET P == ev'.peer
          IN /\ pc' = "select"
             /\ DOMAIN peers' = DOMAIN peers \ {P}
             /\ \A p \in DOMAIN peers' : peers'[p] = peers[p]
             /\ DOMAIN topics' = DOMAIN topics
             /\ \A t \in DOMAIN topics : topics'[t] = topics[t] \ {P}
             /\ DOMAIN chans' = DOMAIN chans
             /\ \A q \in DOMAIN chans :
                   chans'[q] = IF P \in DOMAIN peers /\ peers[P] = q
                               THEN [chans[q] EXCEPT !.closed = TRUE] ELSE chans[q]
             /\ UNCHANGED <<myTopics, subs, seenMessages, tasks, incoming>>
       ]_vars

\* C17: a peer-down of a registered peer while another peer is registered and
\* listed under a topic
C17_Witness ==
    /\ ev.kind = "peerDead" /\ ev.peer \in DOMAIN ev.regs
    /\ \E p \in DOMAIN peers : \E t \in DOMAIN topics : p \in topics[t]

\* C19: no detached send of publishMessage sends on a queue that was closed
\* (a send on a closed channel panics).
C19_NoSendOnClosedQueue == ~(pc = "panic" /\ ev.kind = "detachedSend")

\* Message id a was accepted before message id b
AcceptedBefore(a, b) ==
    \E i, j \in DOMAIN seenMessages :
        i < j /\ seenMessages[i] = a /\ seenMessages[j] = b

\* C20 as stated: the frames of the messages forwarded to a peer enter its
\* queue in the order the messages were accepted (no frame has entered while
\* the send of a message accepted before it is still pending), and an
\* announcement enters after the frames of the messages accepted before it.
C20_ForwardOrder ==
    \A t \in BagToSet(tasks) :
        /\ \A b \in chans[t.q].got : ~AcceptedBefore(msgID(t.frame.publish[1]), b)
        /\ \A i \in DOMAIN ev.ann : ev.ann[i].q # t.q

\* C20: while its id is in the seen window, a message has at most one send
\* pending per queue, and its frame has not entered the queue while that send
\* is pending: the frame enters at most once (in whatever order).
C20_FrameEntersAtMostOnce ==
    \A t \in BagToSet(tasks) :
        /\ CopiesIn(t, tasks) = 1
        /\ msgID(t.frame.publish[1]) \notin chans[t.q].got

\* C20: two messages were forwarded to the same peer, and the frame of the one
\* accepted later has entered the queue while the other's send is pending
C20_Witness ==
    \E t \in BagToSet(tasks) :
        \E b \in chans[t.q].got : AcceptedBefore(msgID(t.frame.publish[1]), b)

\* The message of SpecRing's Publish
RingMsg == [from |-> Nodes[1], seqno |-> 1, topicIDs |-> <<RingTopic>>]

\* How many times node n put the message on its subscriber's inbox
RingDelivered(n) == CopiesIn(<<1, msgID(RingMsg)>>, ring[n].r.delivered)

\* No frame is anywhere between two routers and no send is pending
RingQuiet ==
    \A n \in Node :
        /\ ring[n].r.tasks = EmptyBag
        /\ \A q \in DOMAIN ring[n].out : ring[n].out[q] = <<>> /\ ring[n].r.chans[q].n = 0
        /\ \A pid \in DOMAIN ring[n].wire : ring[n].wire[pid] = <<>>
        /\ ring[n].incoming = <<>>
        /\ ring[n].r.pc = "select"

RingFlooded == RingQuiet /\ \A n \in Node : RingDelivered(n) = 1

\* C18: in the ring where every node subscribes to the topic and knows its
\* neighbours' subscriptions, once n1 has published, no node ever delivers the
\* message to its subscriber twice, and eventually every node has delivered
\* it once and, from then on, no frame is in any queue, stream or ingress
\* channel and no send is pending: nobody forwards it again.
C18_RingFloodsOnce ==
    /\ [](\A n \in Node : RingDelivered(n) <= 1)
    /\ (ring[Nodes[1]].pub = 1) ~> [](RingFlooded)

\* C18: n1 has published and the flood is over
C18_Witness == ring # <<>> /\ ring[Nodes[1]].pub = 1 /\ RingFlooded

====
